---- MODULE Spec2Model ----
(***************************************************************************)
(* Parallel image filters of HPC_Final_Proj: the distributed strategy      *)
(* (src/MPI/image_proc_mpi.c) and the shared-memory strategy               *)
(* (src/OMP/image_proc_omp.c).                                             *)
(*                                                                         *)
(* A buffer of the program (an unsigned char array) is a sequence of      *)
(* bytes; the C offset k of a buffer is index k+1 of the sequence.         *)
(***************************************************************************)
EXTENDS Integers, Sequences, FiniteSets, TLC

\* ------------------------------------------------------------------ bounds
\* Largest number of MPI processes of a run.
MaxSize == 4
\* Largest image height (rows) of a run.
MaxHeight == 3
\* Largest thread_count argument of the shared-memory program.
MaxThreads == 3

\* Image widths of the runs (3 is the smallest width with an interior column).
Widths == {3}

\* ------------------------------------------------------------------ images
\* load_image always builds a 3-channel image.
LoadChannels == 3

\* MPI_Request requests[4]
RequestSlots == 4

FilterNames == {"grayscale", "blur", "edge", "brighten"}
\* argv[3]: the four recognised names and one that is none of them.
FilterArgs == FilterNames \cup {"sepia"}

\* The value of a pointer that is NULL / an image that is not there.
NoImage == [width |-> 0, height |-> 0, channels |-> 0, data |-> << >>]

\* Row contents the input files are built from: kind 1 is the uniform row of
\* 100s, kind 2 a row that starts with the pixel (1, 1, 1), the darkest grey
\* whose weighted sum is below 1 in double arithmetic, and whose other bytes
\* differ from column to column and from channel to channel (bytes at or
\* above 206 saturate under brighten).
RowKinds == {1, 2}

RowBytes(kind, w) ==
    [k \in 1..(w * LoadChannels) |->
        IF kind = 1 THEN 100
        ELSE IF k <= LoadChannels THEN 1
        ELSE ((k - 1) * (k - 1) * 29 + (k - 1) * 53 + 17) % 256]

Concat(rows) ==
    LET n == Len(rows)
        rs == IF n = 0 THEN 0 ELSE Len(rows[1])
    IN [k \in 1..(n * rs) |-> rows[((k - 1) \div rs) + 1][((k - 1) % rs) + 1]]

\* The decoded input files of the runs.
Images ==
    { [width |-> w, height |-> h, channels |-> LoadChannels,
       data |-> Concat([i \in 1..h |-> RowBytes(ks[i], w)])] :
         <<w, h, ks>> \in
            UNION { UNION { {<<w, h, ks>> : ks \in [1..h -> RowKinds]} :
                              h \in 1..MaxHeight } : w \in Widths } }

\* Widths without an interior column, for the runs of the shared-memory
\* program (its blur and edge loops then have an empty column range).
NarrowWidths == {1, 2}

\* The decoded input files of the runs of the shared-memory program.
OmpImages ==
    Images \cup
    { [width |-> w, height |-> h, channels |-> LoadChannels,
       data |-> Concat([i \in 1..h |-> RowBytes(ks[i], w)])] :
         <<w, h, ks>> \in
            UNION { UNION { {<<w, h, ks>> : ks \in [1..h -> RowKinds]} :
                              h \in 1..MaxHeight } : w \in NarrowWidths } }

\* What a read outside any allocated buffer may find in memory.
GarbageRows(n) == { [k \in 1..n |-> 0], [k \in 1..n |-> 255] }

Zeros(n) == [k \in 1..n |-> 0]

Slice(buf, off, n) == [k \in 1..n |-> buf[off + k]]

Min(a, b) == IF a < b THEN a ELSE b

\* Row, column of the byte at index k of an image buffer of width w, ch channels.
RowOf(k, w, ch) == (k - 1) \div (w * ch)
ColOf(k, w, ch) == ((k - 1) % (w * ch)) \div ch

OnBorder(k, img) ==
    \/ RowOf(k, img.width, img.channels) \in {0, img.height - 1}
    \/ ColOf(k, img.width, img.channels) \in {0, img.width - 1}

\* Sum of F[di, dj] over the 3x3 neighbourhood, in the order of the di/dj loops.
D3 == {-1, 0, 1}

Sum9(F) ==
    F[-1, -1] + F[-1, 0] + F[-1, 1] +
    F[0, -1]  + F[0, 0]  + F[0, 1]  +
    F[1, -1]  + F[1, 0]  + F[1, 1]

\* (unsigned char) of a float in 0..255 drops the fraction: floor(sqrt(n)).
Isqrt(n) ==
    IF n >= 255 * 255 THEN 255
    ELSE CHOOSE k \in 0..255 : k * k <= n /\ (k + 1) * (k + 1) > n

\* kernel[3][3] in sixteenths: every product pixel*kernel and every partial
\* sum is a multiple of 1/16 below 256, exact in a float.
kernel == << <<1, 2, 1>>, <<2, 4, 2>>, <<1, 2, 1>> >>
Gx == << <<-1, 0, 1>>, <<-2, 0, 2>>, <<-1, 0, 1>> >>
Gy == << <<-1, -2, -1>>, <<0, 0, 0>>, <<1, 2, 1>> >>

\* sqrt(sum_x^2 + sum_y^2) clamped at 255 and truncated. The sums are integers
\* of magnitude at most 1020, their squares exact in a float.
Magnitude(sx, sy) == Min(255, Isqrt(sx * sx + sy * sy))

\* The uniform triples (v, v, v), v <= 8, for which the double sum
\* 0.299*r + 0.587*g + 0.114*b falls just below the integer it equals in exact
\* arithmetic, so that the cast gives one less. For every other triple the
\* modelled images hold, the cast gives the floor of the exact sum.
GrayRoundedBelow == { <<1, 1, 1>>, <<2, 2, 2>>, <<4, 4, 4>>, <<8, 8, 8>> }

\* (unsigned char)(0.299 * r + 0.587 * g + 0.114 * b)
Gray(r, g, b) ==
    LET s == 299 * r + 587 * g + 114 * b
    IN IF <<r, g, b>> \in GrayRoundedBelow THEN (s \div 1000) - 1 ELSE s \div 1000

\* The store of v + brightness into an unsigned char with no clamp: wraps at 256.
BrightenWrap(v, brightness) == (v + brightness) % 256

\* new_val = v + brightness; clamp to 0..255
Brighten(v, brightness) ==
    LET new_val == v + brightness
    IN IF new_val > 255 THEN 255 ELSE IF new_val < 0 THEN 0 ELSE new_val

\* ------------------------------------------ distributed strategy: kernels
\* grayscale_filter_mpi: in place on the band; channel 3 and above untouched.
grayscale_filter_mpi(local_data, local_height, width, channels) ==
    [k \in 1..(local_height * width * channels) |->
        LET idx == ((k - 1) \div channels) * channels
            c == (k - 1) % channels
            r == local_data[idx + 1]
            g == IF channels > 1 THEN local_data[idx + 2] ELSE r
            b == IF channels > 2 THEN local_data[idx + 3] ELSE r
        IN IF c <= 2 THEN Gray(r, g, b) ELSE local_data[k]]

\* The row i of a band that the stencil filters skip: the first row of rank 0
\* and the last row of rank size-1.
SkipRow(i, local_height, rank, size) ==
    (rank = 0 /\ i = 0) \/ (rank = size - 1 /\ i = local_height - 1)

\* pixel_val of the stencil loops: from halo_top above the band, halo_bottom
\* below it, the copy temp inside it.
PixelVal(temp, halo_top, halo_bottom, local_height, width, channels, ni, nj, c) ==
    IF ni < 0 THEN halo_top[nj * channels + c + 1]
    ELSE IF ni >= local_height THEN halo_bottom[nj * channels + c + 1]
    ELSE temp[(ni * width + nj) * channels + c + 1]

gaussian_blur_filter_mpi(local_data, halo_top, halo_bottom, local_height, width, channels, rank, size) ==
    LET temp == local_data
    IN [k \in 1..(local_height * width * channels) |->
        LET i == (k - 1) \div (width * channels)
            j == ((k - 1) % (width * channels)) \div channels
            c == (k - 1) % channels
            T == [di \in D3, dj \in D3 |->
                    PixelVal(temp, halo_top, halo_bottom, local_height,
                             width, channels, i + di, j + dj, c)
                      * kernel[di + 2][dj + 2]]
        IN IF SkipRow(i, local_height, rank, size) \/ j < 1 \/ j >= width - 1
           THEN local_data[k]
           ELSE Sum9(T) \div 16]

sobel_edge_filter_mpi(local_data, halo_top, halo_bottom, local_height, width, channels, rank, size) ==
    LET temp == local_data
    IN [k \in 1..(local_height * width * channels) |->
        LET i == (k - 1) \div (width * channels)
            j == ((k - 1) % (width * channels)) \div channels
            P == [di \in D3, dj \in D3 |->
                    PixelVal(temp, halo_top, halo_bottom, local_height,
                             width, channels, i + di, j + dj, 0)]
            X == [di \in D3, dj \in D3 |-> P[di, dj] * Gx[di + 2][dj + 2]]
            Y == [di \in D3, dj \in D3 |-> P[di, dj] * Gy[di + 2][dj + 2]]
        IN IF SkipRow(i, local_height, rank, size) \/ j < 1 \/ j >= width - 1
           THEN local_data[k]
           ELSE Magnitude(Sum9(X), Sum9(Y))]

brightness_filter_mpi(local_data, local_height, width, channels, brightness) ==
    [k \in 1..(local_height * width * channels) |->
        Brighten(local_data[k], brightness)]

\* ------------------------------------------ distributed strategy: partition
\* local_height of one rank: rows_per_process, plus one below the remainder.
LocalHeight(rank, height, size) ==
    LET rows_per_process == height \div size
        remainder == height % size
    IN IF rank < remainder THEN rows_per_process + 1 ELSE rows_per_process

\* The extra row given to one rank too many.
CoordRowsOneTooMany(i, height, size) ==
    LET rows_per_process == height \div size
        remainder == height % size
    IN IF i <= remainder THEN rows_per_process + 1 ELSE rows_per_process

\* rows of the coordinator's loop, iteration i.
CoordRows(i, height, size) ==
    LET rows_per_process == height \div size
        remainder == height % size
    IN IF i < remainder THEN rows_per_process + 1 ELSE rows_per_process

\* sendcounts[i] = rows * width * channels, as a sequence over ranks 0..size-1.
ComputeSendcounts(width, height, channels, size) ==
    [i \in 1..size |-> CoordRows(i - 1, height, size) * width * channels]

\* The running offset of the coordinator's loop before iteration i.
RECURSIVE OffsetBefore(_, _)
OffsetBefore(counts, i) ==
    IF i = 0 THEN 0 ELSE OffsetBefore(counts, i - 1) + counts[i]

\* The displacements of a loop that never advances offset.
ComputeDisplsNoAdvance(counts, size) == [i \in 1..size |-> 0]

\* displs[i] = offset; offset += sendcounts[i].
ComputeDispls(counts, size) ==
    [i \in 1..size |-> OffsetBefore(counts, i - 1)]

\* byte k of the gathered buffer: the contribution of the last rank, in rank
\* order 0..n-1, whose range [displs, displs + recvcounts) holds offset k-1.
RECURSIVE GatherInto(_, _, _, _, _)
GatherInto(buf, data, counts, offs, n) ==
    IF n = 0 THEN buf
    ELSE LET prev == GatherInto(buf, data, counts, offs, n - 1)
         IN [k \in 1..Len(buf) |->
               IF offs[n] < k /\ k <= offs[n] + counts[n]
               THEN data[n - 1][k - offs[n]]
               ELSE prev[k]]

\* The ranks whose gathered range holds the byte at offset k-1.
GatherWriters(k, counts, offs, n) ==
    { q \in 0..(n - 1) : offs[q + 1] < k /\ k <= offs[q + 1] + counts[q + 1] }

\* The halo messages a rank sends: its first row to rank-1 with tag 0, its last
\* row to rank+1 with tag 1.
HaloSends(rank, size, first_row, last_row) ==
    (IF rank > 0
        THEN {[src |-> rank, dst |-> rank - 1, tag |-> 0, data |-> first_row]}
        ELSE {})
    \cup
    (IF rank < size - 1
        THEN {[src |-> rank, dst |-> rank + 1, tag |-> 1, data |-> last_row]}
        ELSE {})

\* A worker that posts only the receive from its upper neighbour.
HaloRecvsTopOnly(rank, size) ==
    IF rank > 0
    THEN {[src |-> rank - 1, tag |-> 1, buf |-> "halo_top"]}
    ELSE {}

\* The receives a rank posts: into halo_top from rank-1 with tag 1, into
\* halo_bottom from rank+1 with tag 0.
HaloRecvs(rank, size) ==
    (IF rank > 0
        THEN {[src |-> rank - 1, tag |-> 1, buf |-> "halo_top"]}
        ELSE {})
    \cup
    (IF rank < size - 1
        THEN {[src |-> rank + 1, tag |-> 0, buf |-> "halo_bottom"]}
        ELSE {})

\* ----------------------------------------------------------------- state
VARIABLES
    argc,           \* number of command-line arguments
    filter_type,    \* argv[3]
    input_file,     \* the image argv[1] decodes to; NoImage when it does not load
    size,           \* number of MPI processes
    pc,             \* each rank's position in main
    exit_code,      \* each rank's return value, -1 while it runs
    full_image,     \* rank 0: the loaded image, NoImage when NULL
    dims,           \* each rank's width, height, channels
    local_height,   \* each rank's local_height
    local_data,     \* each rank's band buffer
    sendcounts,     \* rank 0: byte count per rank
    displs,         \* rank 0: byte displacement per rank
    bcast_done,     \* rank 0 has broadcast the dimensions
    scat_msg,       \* the band rank 0 has sent to each rank in MPI_Scatterv
    scat_done,      \* rank 0 has called MPI_Scatterv
    net,            \* halo messages sent and not yet received
    posted,         \* each rank's posted and unmatched receives
    halo_top,       \* each rank's halo_top buffer
    halo_bottom,    \* each rank's halo_bottom buffer
    gath,           \* ranks whose band has been handed to MPI_Gatherv
    saved,          \* the image written to argv[2], NoImage while none
    oob,            \* ranks that have read or written outside an allocation
    recv_log,       \* which message went into which halo buffer
    gather_writers, \* per byte of the full buffer, the ranks gathered into it
    req_count,      \* each rank's req_count of the halo exchange
    thread_count,   \* shared-memory program: atoi(argv[4])
    opc,            \* shared-memory program: position of main
    omp_exit,       \* shared-memory program: return value of main, -1 while it runs
    input,          \* shared-memory program: the loaded image
    output,         \* shared-memory program: the image made by create_image
    next_i,         \* per thread of the team: the next iteration of its chunk
    out_writers,    \* per byte of output->data, the threads that wrote it
    omp_saved,      \* shared-memory program: the image written to argv[2]
    border_written, \* the bytes of output->data the "Copy borders" loop wrote
    save_calls      \* the callers of save_image, in order: the rank, 0 in the
                    \* shared-memory program

run_vars == <<argc, filter_type, input_file>>
mpi_vars == <<size, pc, exit_code, full_image, dims, local_height, local_data,
              sendcounts, displs, bcast_done, scat_msg, scat_done, net, posted,
              halo_top, halo_bottom, gath, saved, oob, recv_log, gather_writers,
              req_count>>
omp_vars == <<thread_count, opc, omp_exit, input, output, next_i, out_writers,
              omp_saved, border_written>>
vars == <<run_vars, mpi_vars, omp_vars, save_calls>>

Ranks == 0..(size - 1)

NoDims == [width |-> 0, height |-> 0, channels |-> 0]

InitMPI ==
    /\ size \in 1..MaxSize
    /\ pc = [r \in Ranks |-> "start"]
    /\ exit_code = [r \in Ranks |-> -1]
    /\ full_image = NoImage
    /\ dims = [r \in Ranks |-> NoDims]
    /\ local_height = [r \in Ranks |-> 0]
    /\ local_data = [r \in Ranks |-> << >>]
    /\ sendcounts = << >>
    /\ displs = << >>
    /\ bcast_done = FALSE
    /\ scat_msg = [r \in Ranks |-> << >>]
    /\ scat_done = FALSE
    /\ net = {}
    /\ posted = [r \in Ranks |-> {}]
    /\ halo_top = [r \in Ranks |-> << >>]
    /\ halo_bottom = [r \in Ranks |-> << >>]
    /\ gath = {}
    /\ saved = NoImage
    /\ oob = {}
    /\ recv_log = {}
    /\ gather_writers = << >>
    /\ req_count = [r \in Ranks |-> 0]

\* The command lines: too few arguments (no filter, no file), or all of them.
InitRun ==
    \/ /\ argc = 3
       /\ filter_type = ""
       /\ input_file = NoImage
    \/ /\ argc = 4
       /\ filter_type \in FilterArgs
       /\ input_file \in Images \cup {NoImage}

\* The shared-memory program is not part of a run of the distributed one.
IdleOMP ==
    /\ thread_count = 0
    /\ opc = "off"
    /\ omp_exit = -1
    /\ input = NoImage
    /\ output = NoImage
    /\ next_i = << >>
    /\ out_writers = << >>
    /\ omp_saved = NoImage
    /\ border_written = {}

Init == InitRun /\ InitMPI /\ IdleOMP /\ save_calls = << >>

\* ------------------------------------------- distributed strategy: main
\* A usage check that only rank 0 makes: the other ranks go on to MPI_Bcast.
StartOnlyRootChecks(r) ==
    /\ pc[r] = "start"
    /\ IF argc < 4 /\ r = 0
       THEN /\ pc' = [pc EXCEPT ![r] = "exit"]
            /\ exit_code' = [exit_code EXCEPT ![r] = 1]
       ELSE /\ pc' = [pc EXCEPT ![r] = IF r = 0 THEN "load" ELSE "bcast"]
            /\ UNCHANGED exit_code
    /\ UNCHANGED <<run_vars, omp_vars, save_calls, req_count, size, full_image, dims, local_height, local_data,
                   sendcounts, displs, bcast_done, scat_msg, scat_done, net,
                   posted, halo_top, halo_bottom, gath, saved, oob, recv_log,
                   gather_writers>>

\* if (argc < 4) { MPI_Finalize(); return 1; }
Start(r) ==
    /\ pc[r] = "start"
    /\ IF argc < 4
       THEN /\ pc' = [pc EXCEPT ![r] = "exit"]
            /\ exit_code' = [exit_code EXCEPT ![r] = 1]
       ELSE /\ pc' = [pc EXCEPT ![r] = IF r = 0 THEN "load" ELSE "bcast"]
            /\ UNCHANGED exit_code
    /\ UNCHANGED <<run_vars, omp_vars, save_calls, req_count, size, full_image, dims, local_height, local_data,
                   sendcounts, displs, bcast_done, scat_msg, scat_done, net,
                   posted, halo_top, halo_bottom, gath, saved, oob, recv_log,
                   gather_writers>>

\* A rank 0 that returns 1 by itself when load_image gives NULL, with no
\* MPI_Abort: the other ranks stay in MPI_Bcast.
LoadReturnOnly ==
    /\ pc[0] = "load"
    /\ IF input_file = NoImage
       THEN /\ pc' = [pc EXCEPT ![0] = "exit"]
            /\ exit_code' = [exit_code EXCEPT ![0] = 1]
            /\ UNCHANGED <<full_image, dims>>
       ELSE /\ full_image' = input_file
            /\ dims' = [dims EXCEPT ![0] = [width |-> input_file.width,
                                            height |-> input_file.height,
                                            channels |-> input_file.channels]]
            /\ pc' = [pc EXCEPT ![0] = "bcast"]
            /\ UNCHANGED exit_code
    /\ UNCHANGED <<run_vars, omp_vars, save_calls, req_count, size, local_height, local_data, sendcounts, displs,
                   bcast_done, scat_msg, scat_done, net, posted, halo_top,
                   halo_bottom, gath, saved, oob, recv_log, gather_writers>>

\* Rank 0: full_image = load_image(input_file); MPI_Abort when it is NULL.
Load ==
    /\ pc[0] = "load"
    /\ IF input_file = NoImage
       THEN /\ pc' = [q \in Ranks |-> "aborted"]
            /\ exit_code' = [q \in Ranks |-> 1]
            /\ UNCHANGED <<full_image, dims>>
       ELSE /\ full_image' = input_file
            /\ dims' = [dims EXCEPT ![0] = [width |-> input_file.width,
                                            height |-> input_file.height,
                                            channels |-> input_file.channels]]
            /\ pc' = [pc EXCEPT ![0] = "bcast"]
            /\ UNCHANGED exit_code
    /\ UNCHANGED <<run_vars, omp_vars, save_calls, req_count, size, local_height, local_data, sendcounts, displs,
                   bcast_done, scat_msg, scat_done, net, posted, halo_top,
                   halo_bottom, gath, saved, oob, recv_log, gather_writers>>

\* The three MPI_Bcast of width, height, channels from rank 0, then the
\* partition arithmetic and the allocation of local_data, up to MPI_Barrier.
Bcast(r) ==
    /\ pc[r] = "bcast"
    /\ r = 0 \/ bcast_done
    /\ LET d == dims[0]
           lh == LocalHeight(r, d.height, size)
           counts == ComputeSendcounts(d.width, d.height, d.channels, size)
       IN /\ dims' = [dims EXCEPT ![r] = d]
          /\ local_height' = [local_height EXCEPT ![r] = lh]
          /\ local_data' = [local_data EXCEPT
                               ![r] = Zeros(lh * d.width * d.channels)]
          /\ IF r = 0
             THEN /\ sendcounts' = counts
                  /\ displs' = ComputeDispls(counts, size)
                  /\ bcast_done' = TRUE
             ELSE UNCHANGED <<sendcounts, displs, bcast_done>>
    /\ pc' = [pc EXCEPT ![r] = "barrier1"]
    /\ UNCHANGED <<run_vars, omp_vars, save_calls, req_count, size, exit_code, full_image, scat_msg, scat_done,
                   net, posted, halo_top, halo_bottom, gath, saved, oob,
                   recv_log, gather_writers>>

\* A barrier that returns without waiting for the other ranks.
Barrier1NoWait(r) ==
    /\ pc[r] = "barrier1"
    /\ pc' = [pc EXCEPT ![r] = "scatter"]
    /\ UNCHANGED <<run_vars, omp_vars, save_calls, req_count, size, exit_code, full_image, dims, local_height,
                   local_data, sendcounts, displs, bcast_done, scat_msg,
                   scat_done, net, posted, halo_top, halo_bottom, gath, saved,
                   oob, recv_log, gather_writers>>

\* MPI_Barrier before the scatter: returns once every rank has entered it.
Barrier1(r) ==
    /\ pc[r] = "barrier1"
    /\ \A q \in Ranks : pc[q] \notin {"start", "load", "bcast"}
    /\ pc' = [pc EXCEPT ![r] = "scatter"]
    /\ UNCHANGED <<run_vars, omp_vars, save_calls, req_count, size, exit_code, full_image, dims, local_height,
                   local_data, sendcounts, displs, bcast_done, scat_msg,
                   scat_done, net, posted, halo_top, halo_bottom, gath, saved,
                   oob, recv_log, gather_writers>>

\* Where the strcmp chain on filter_type leads after the scatter.
Dispatch ==
    IF filter_type \in {"grayscale", "brighten"} THEN "compute"
    ELSE IF filter_type \in {"blur", "edge"} THEN "halo"
    ELSE "unknown"

\* MPI_Scatterv: rank 0 sends each rank the bytes [displs, displs + sendcounts)
\* of full_image->data; every rank receives its band into local_data.
Scatterv(r) ==
    /\ pc[r] = "scatter"
    /\ r = 0 \/ scat_done
    /\ IF r = 0
       THEN /\ scat_msg' = [q \in Ranks |->
                   Slice(full_image.data, displs[q + 1], sendcounts[q + 1])]
            /\ scat_done' = TRUE
            /\ local_data' = [local_data EXCEPT
                   ![0] = Slice(full_image.data, displs[1], sendcounts[1])]
       ELSE /\ local_data' = [local_data EXCEPT ![r] = scat_msg[r]]
            /\ UNCHANGED <<scat_msg, scat_done>>
    /\ pc' = [pc EXCEPT ![r] = Dispatch]
    /\ UNCHANGED <<run_vars, omp_vars, save_calls, req_count, size, exit_code, full_image, dims, local_height,
                   sendcounts, displs, bcast_done, net, posted, halo_top,
                   halo_bottom, gath, saved, oob, recv_log, gather_writers>>

\* The final else of the strcmp chain: free(local_data), rank 0 frees the
\* image, MPI_Finalize, return 1.
UnknownFilter(r) ==
    /\ pc[r] = "unknown"
    /\ local_data' = [local_data EXCEPT ![r] = << >>]
    /\ full_image' = IF r = 0 THEN NoImage ELSE full_image
    /\ pc' = [pc EXCEPT ![r] = "exit"]
    /\ exit_code' = [exit_code EXCEPT ![r] = 1]
    /\ UNCHANGED <<run_vars, omp_vars, save_calls, req_count, size, dims, local_height, sendcounts, displs,
                   bcast_done, scat_msg, scat_done, net, posted, halo_top,
                   halo_bottom, gath, saved, oob, recv_log, gather_writers>>

\* The row MPI_Isend reads at local_data + row * row_size: a row of the band
\* when the band has that row, whatever memory holds there otherwise.
InBand(r, row) == 0 <= row /\ row < local_height[r]

HaloUB(r) ==
    /\ local_height[r] = 0
    /\ dims[r].width * dims[r].channels > 0
    /\ r > 0 \/ r < size - 1

\* calloc of halo_top and halo_bottom, MPI_Isend and MPI_Irecv with the upper
\* and the lower neighbour. A rank with an empty band sends row_size bytes
\* from outside its allocation: the read finds some memory contents, or it
\* faults and the launcher ends the job.
HaloPost(r) ==
    /\ pc[r] = "halo"
    /\ LET row_size == dims[r].width * dims[r].channels
           lh == local_height[r]
       IN \/ /\ \E g \in (IF HaloUB(r) THEN GarbageRows(row_size) ELSE {<< >>}) :
                   LET first_row == IF InBand(r, 0)
                                    THEN Slice(local_data[r], 0, row_size)
                                    ELSE g
                       last_row == IF InBand(r, lh - 1)
                                   THEN Slice(local_data[r], (lh - 1) * row_size,
                                              row_size)
                                   ELSE g
                   IN net' = net \cup HaloSends(r, size, first_row, last_row)
             /\ halo_top' = [halo_top EXCEPT ![r] = Zeros(row_size)]
             /\ halo_bottom' = [halo_bottom EXCEPT ![r] = Zeros(row_size)]
             /\ posted' = [posted EXCEPT ![r] = HaloRecvs(r, size)]
             /\ req_count' = [req_count EXCEPT
                   ![r] = (IF r > 0 THEN 2 ELSE 0) + (IF r < size - 1 THEN 2 ELSE 0)]
             /\ oob' = IF HaloUB(r) THEN oob \cup {r} ELSE oob
             /\ pc' = [pc EXCEPT ![r] = "waitall"]
             /\ UNCHANGED exit_code
          \/ /\ HaloUB(r)
             /\ oob' = oob \cup {r}
             /\ pc' = [q \in Ranks |-> IF q = r THEN "crashed" ELSE "aborted"]
             /\ exit_code' = [q \in Ranks |-> 1]
             /\ UNCHANGED <<net, halo_top, halo_bottom, posted, req_count>>
    /\ UNCHANGED <<run_vars, omp_vars, save_calls, size, full_image, dims, local_height, local_data,
                   sendcounts, displs, bcast_done, scat_msg, scat_done, gath,
                   saved, recv_log, gather_writers>>

\* The message in flight that matches a posted receive of rank r.
Matching(r, req) ==
    { m \in net : m.dst = r /\ m.src = req.src /\ m.tag = req.tag }

\* What MPI_Waitall leaves in buffer buf of rank r.
Received(r, buf, old) ==
    IF \E req \in posted[r] : req.buf = buf
    THEN LET req == CHOOSE q \in posted[r] : q.buf = buf
         IN (CHOOSE m \in Matching(r, req) : TRUE).data
    ELSE old

\* MPI_Waitall(req_count, requests): returns when each posted receive has its
\* message and each send has been matched by a receive of the neighbour.
Waitall(r) ==
    /\ pc[r] = "waitall"
    /\ \A req \in posted[r] : Matching(r, req) # {}
    /\ \A m \in net : m.src = r =>
          \E req \in posted[m.dst] : req.src = r /\ req.tag = m.tag
    /\ halo_top' = [halo_top EXCEPT ![r] = Received(r, "halo_top", @)]
    /\ halo_bottom' = [halo_bottom EXCEPT ![r] = Received(r, "halo_bottom", @)]
    /\ recv_log' = recv_log \cup
          { [rank |-> r, buf |-> req.buf, src |-> req.src, tag |-> req.tag] :
              req \in posted[r] }
    /\ net' = net \ UNION { Matching(r, req) : req \in posted[r] }
    /\ posted' = [posted EXCEPT ![r] = {}]
    /\ pc' = [pc EXCEPT ![r] = "compute"]
    /\ UNCHANGED <<run_vars, omp_vars, save_calls, req_count, size, exit_code, full_image, dims, local_height,
                   local_data, sendcounts, displs, bcast_done, scat_msg,
                   scat_done, gath, saved, oob, gather_writers>>

\* The filter call of the strcmp chain on the rank's band; the stencil
\* branches then free halo_top and halo_bottom.
FilterBand(r) ==
    LET d == dims[r]
        lh == local_height[r]
    IN IF filter_type = "grayscale"
       THEN grayscale_filter_mpi(local_data[r], lh, d.width, d.channels)
       ELSE IF filter_type = "blur"
       THEN gaussian_blur_filter_mpi(local_data[r], halo_top[r], halo_bottom[r],
                                     lh, d.width, d.channels, r, size)
       ELSE IF filter_type = "edge"
       THEN sobel_edge_filter_mpi(local_data[r], halo_top[r], halo_bottom[r],
                                  lh, d.width, d.channels, r, size)
       ELSE brightness_filter_mpi(local_data[r], lh, d.width, d.channels, 50)

Compute(r) ==
    /\ pc[r] = "compute"
    /\ local_data' = [local_data EXCEPT ![r] = FilterBand(r)]
    /\ halo_top' = [halo_top EXCEPT ![r] = << >>]
    /\ halo_bottom' = [halo_bottom EXCEPT ![r] = << >>]
    /\ pc' = [pc EXCEPT ![r] = "gather"]
    /\ UNCHANGED <<run_vars, omp_vars, save_calls, req_count, size, exit_code, full_image, dims, local_height,
                   sendcounts, displs, bcast_done, scat_msg, scat_done, net,
                   posted, gath, saved, oob, recv_log, gather_writers>>

\* MPI_Gatherv: every rank hands over local_size bytes of local_data; rank 0
\* returns once it holds them all, each at displs[q] of full_image->data.
Gatherv(r) ==
    /\ pc[r] = "gather"
    /\ IF r = 0
       THEN /\ \A q \in Ranks \ {0} : q \in gath
            /\ full_image' = [full_image EXCEPT
                   !.data = GatherInto(@, local_data, sendcounts, displs, size)]
            /\ gather_writers' =
                   [k \in 1..Len(full_image.data) |->
                       GatherWriters(k, sendcounts, displs, size)]
       ELSE UNCHANGED <<full_image, gather_writers>>
    /\ gath' = gath \cup {r}
    /\ pc' = [pc EXCEPT ![r] = "barrier2"]
    /\ UNCHANGED <<run_vars, omp_vars, save_calls, req_count, size, exit_code, dims, local_height, local_data,
                   sendcounts, displs, bcast_done, scat_msg, scat_done, net,
                   posted, halo_top, halo_bottom, saved, oob, recv_log>>

\* MPI_Barrier after the gather.
Barrier2(r) ==
    /\ pc[r] = "barrier2"
    /\ \A q \in Ranks : pc[q] \in {"barrier2", "finish", "exit"}
    /\ pc' = [pc EXCEPT ![r] = "finish"]
    /\ UNCHANGED <<run_vars, omp_vars, save_calls, req_count, size, exit_code, full_image, dims, local_height,
                   local_data, sendcounts, displs, bcast_done, scat_msg,
                   scat_done, net, posted, halo_top, halo_bottom, gath, saved,
                   oob, recv_log, gather_writers>>

\* A program whose every rank calls save_image.
FinishEveryRankSaves(r) ==
    /\ pc[r] = "finish"
    /\ saved' = IF r = 0 THEN full_image ELSE saved
    /\ save_calls' = Append(save_calls, r)
    /\ IF r = 0
       THEN /\ sendcounts' = << >>
            /\ displs' = << >>
            /\ full_image' = NoImage
       ELSE UNCHANGED <<sendcounts, displs, full_image>>
    /\ local_data' = [local_data EXCEPT ![r] = << >>]
    /\ pc' = [pc EXCEPT ![r] = "exit"]
    /\ exit_code' = [exit_code EXCEPT ![r] = 0]
    /\ UNCHANGED <<run_vars, omp_vars, req_count, size, dims, local_height, bcast_done, scat_msg,
                   scat_done, net, posted, halo_top, halo_bottom, gath, oob,
                   recv_log, gather_writers>>

\* Rank 0 saves full_image and frees sendcounts, displs and the image; every
\* rank frees local_data, calls MPI_Finalize and returns 0.
Finish(r) ==
    /\ pc[r] = "finish"
    /\ IF r = 0
       THEN /\ saved' = full_image
            /\ save_calls' = Append(save_calls, r)
            /\ sendcounts' = << >>
            /\ displs' = << >>
            /\ full_image' = NoImage
       ELSE UNCHANGED <<saved, save_calls, sendcounts, displs, full_image>>
    /\ local_data' = [local_data EXCEPT ![r] = << >>]
    /\ pc' = [pc EXCEPT ![r] = "exit"]
    /\ exit_code' = [exit_code EXCEPT ![r] = 0]
    /\ UNCHANGED <<run_vars, omp_vars, req_count, size, dims, local_height, bcast_done, scat_msg,
                   scat_done, net, posted, halo_top, halo_bottom, gath, oob,
                   recv_log, gather_writers>>

Next ==
    \/ Load
    \/ \E r \in Ranks : Start(r)
    \/ \E r \in Ranks : Bcast(r)
    \/ \E r \in Ranks : Barrier1(r)
    \/ \E r \in Ranks : Scatterv(r)
    \/ \E r \in Ranks : UnknownFilter(r)
    \/ \E r \in Ranks : HaloPost(r)
    \/ \E r \in Ranks : Waitall(r)
    \/ \E r \in Ranks : Compute(r)
    \/ \E r \in Ranks : Gatherv(r)
    \/ \E r \in Ranks : Barrier2(r)
    \/ \E r \in Ranks : Finish(r)

Spec == Init /\ [][Next]_vars

\* ------------------------------------------ shared-memory strategy: kernels
\* A loop iteration's writes to output->data are a function from the byte
\* indices it writes to the values it writes there.

\* Body of the parallel loop of grayscale_filter for row i.
grayscale_filter(in, i) ==
    LET w == in.width
        ch == in.channels
        ks == { k \in 1..Len(in.data) :
                   RowOf(k, w, ch) = i /\ (k - 1) % ch <= 3 }
    IN [k \in ks |->
          LET idx == ((k - 1) \div ch) * ch
              c == (k - 1) % ch
              r == in.data[idx + 1]
              g == IF ch > 1 THEN in.data[idx + 2] ELSE r
              b == IF ch > 2 THEN in.data[idx + 3] ELSE r
          IN IF c <= 2 THEN Gray(r, g, b) ELSE in.data[k]]

\* Body of the parallel loop of gaussian_blur_filter for row i.
gaussian_blur_filter(in, i) ==
    LET w == in.width
        ch == in.channels
        ks == { k \in 1..Len(in.data) :
                   /\ RowOf(k, w, ch) = i
                   /\ 1 <= ColOf(k, w, ch) /\ ColOf(k, w, ch) < w - 1 }
    IN [k \in ks |->
          LET j == ColOf(k, w, ch)
              c == (k - 1) % ch
              T == [di \in D3, dj \in D3 |->
                      in.data[((i + di) * w + (j + dj)) * ch + c + 1]
                        * kernel[di + 2][dj + 2]]
          IN Sum9(T) \div 16]

\* Body of the parallel loop of sobel_edge_filter for row i.
sobel_edge_filter(in, i) ==
    LET w == in.width
        ch == in.channels
        ks == { k \in 1..Len(in.data) :
                   /\ RowOf(k, w, ch) = i
                   /\ 1 <= ColOf(k, w, ch) /\ ColOf(k, w, ch) < w - 1 }
    IN [k \in ks |->
          LET j == ColOf(k, w, ch)
              P == [di \in D3, dj \in D3 |->
                      in.data[((i + di) * w + (j + dj)) * ch + 1]]
              X == [di \in D3, dj \in D3 |-> P[di, dj] * Gx[di + 2][dj + 2]]
              Y == [di \in D3, dj \in D3 |-> P[di, dj] * Gy[di + 2][dj + 2]]
          IN Magnitude(Sum9(X), Sum9(Y))]

\* brightness_filter with idx = j * channels: every iteration writes row 0.
brightness_filter_row0(in, i, brightness) ==
    LET rs == in.width * in.channels
    IN [k \in 1..rs |-> Brighten(in.data[i * rs + k], brightness)]

\* Body of the parallel loop of brightness_filter for row i.
brightness_filter(in, i, brightness) ==
    LET ks == { k \in 1..Len(in.data) : RowOf(k, in.width, in.channels) = i }
    IN [k \in ks |-> Brighten(in.data[k], brightness)]

\* The bytes iteration i of the "Copy borders" loop writes: the whole row when
\* i is 0 or height-1, otherwise the pixels at idx_left and idx_right.
BorderRow(in, i) ==
    LET w == in.width
        ch == in.channels
    IN IF i = 0 \/ i = in.height - 1
       THEN { (i * w + j) * ch + c + 1 : j \in 0..(w - 1), c \in 0..(ch - 1) }
       ELSE { (i * w) * ch + c + 1 : c \in 0..(ch - 1) }
               \cup { (i * w + w - 1) * ch + c + 1 : c \in 0..(ch - 1) }

\* A border copy of the first and the last row only.
BlurBordersRowsOnly(in) ==
    LET ks == BorderRow(in, 0) \cup BorderRow(in, in.height - 1)
    IN [k \in ks |-> in.data[k]]

\* The sequential "Copy borders" loop of gaussian_blur_filter, i = 0..height-1.
BlurBorders(in) ==
    LET ks == UNION { BorderRow(in, i) : i \in 0..(in.height - 1) }
    IN [k \in ks |-> in.data[k]]

\* The writes of one iteration of the filter's parallel loop.
LoopBody(in, i) ==
    IF filter_type = "grayscale" THEN grayscale_filter(in, i)
    ELSE IF filter_type = "blur" THEN gaussian_blur_filter(in, i)
    ELSE IF filter_type = "edge" THEN sobel_edge_filter(in, i)
    ELSE brightness_filter(in, i, 50)

\* First iteration and one past the last of the filter's parallel loop.
LoopLo == IF filter_type \in {"blur", "edge"} THEN 1 ELSE 0
LoopHi(height) == IF filter_type \in {"blur", "edge"} THEN height - 1 ELSE height

\* schedule(static) with no chunk size: the iterations lo..hi-1 in one
\* contiguous chunk per thread, the chunks as equal as possible, in thread
\* order. ChunkStart(t) is thread t's first iteration, ChunkStart(t+1) one
\* past its last.
ChunkStart(t, lo, hi, nthreads) ==
    LET n == IF hi > lo THEN hi - lo ELSE 0
        q == n \div nthreads
        rem == n % nthreads
    IN lo + t * q + Min(t, rem)

Apply(buf, writes) ==
    [k \in 1..Len(buf) |-> IF k \in DOMAIN writes THEN writes[k] ELSE buf[k]]

\* ------------------------------------------- shared-memory strategy: main
Threads == 0..(thread_count - 1)

\* A main that takes any thread count: only argc is checked.
OmpStartAnyCount ==
    /\ opc = "start"
    /\ IF argc < 5
       THEN opc' = "exit" /\ omp_exit' = 1
       ELSE opc' = "load" /\ UNCHANGED omp_exit
    /\ UNCHANGED <<run_vars, mpi_vars, save_calls, border_written, thread_count, input, output, next_i,
                   out_writers, omp_saved>>

\* if (argc < 5) return 1; if (thread_count < 1) return 1;
OmpStart ==
    /\ opc = "start"
    /\ IF argc < 5 \/ thread_count < 1
       THEN opc' = "exit" /\ omp_exit' = 1
       ELSE opc' = "load" /\ UNCHANGED omp_exit
    /\ UNCHANGED <<run_vars, mpi_vars, save_calls, border_written, thread_count, input, output, next_i,
                   out_writers, omp_saved>>

\* input = load_image(input_file), return 1 when NULL;
\* output = create_image(...): calloc, every byte 0.
OmpLoad ==
    /\ opc = "load"
    /\ IF input_file = NoImage
       THEN /\ opc' = "exit"
            /\ omp_exit' = 1
            /\ UNCHANGED <<input, output>>
       ELSE /\ input' = input_file
            /\ output' = [input_file EXCEPT !.data = Zeros(Len(input_file.data))]
            /\ opc' = "filter"
            /\ UNCHANGED omp_exit
    /\ UNCHANGED <<run_vars, mpi_vars, save_calls, border_written, thread_count, next_i, out_writers,
                   omp_saved>>

\* The strcmp chain: a recognised filter enters its parallel region with a team
\* of thread_count threads; any other name frees both images and returns 1.
OmpFork ==
    /\ opc = "filter"
    /\ IF filter_type \in FilterNames
       THEN /\ opc' = "parallel"
            /\ next_i' = [t \in Threads |->
                   ChunkStart(t, LoopLo, LoopHi(input.height), thread_count)]
            /\ out_writers' = [k \in 1..Len(output.data) |-> {}]
            /\ UNCHANGED <<input, output, omp_exit>>
       ELSE /\ opc' = "exit"
            /\ omp_exit' = 1
            /\ input' = NoImage
            /\ output' = NoImage
            /\ UNCHANGED <<next_i, out_writers>>
    /\ UNCHANGED <<run_vars, mpi_vars, save_calls, border_written, thread_count, omp_saved>>

\* Thread t has run every iteration of its chunk.
ThreadDone(t) ==
    next_i[t] >= ChunkStart(t + 1, LoopLo, LoopHi(input_file.height), thread_count)

\* A join that goes on as soon as one thread of the team has finished.
TeamDoneAnyThread == \E t \in Threads : ThreadDone(t)

\* The implicit barrier that ends the parallel for: every thread of the team
\* has finished its chunk.
TeamDone == \A t \in Threads : ThreadDone(t)

\* Thread t runs the next iteration of its chunk.
OmpIter(t) ==
    /\ opc = "parallel"
    /\ ~ThreadDone(t)
    /\ LET writes == LoopBody(input, next_i[t])
       IN /\ output' = [output EXCEPT !.data = Apply(@, writes)]
          /\ out_writers' = [k \in 1..Len(out_writers) |->
                IF k \in DOMAIN writes THEN out_writers[k] \cup {t}
                ELSE out_writers[k]]
    /\ next_i' = [next_i EXCEPT ![t] = @ + 1]
    /\ UNCHANGED <<run_vars, mpi_vars, save_calls, border_written, thread_count, opc, omp_exit, input,
                   omp_saved>>

\* The implicit barrier at the end of the parallel for: the filter function
\* goes on once every thread has finished its chunk. gaussian_blur_filter
\* then copies the borders; the others return.
OmpJoin ==
    /\ opc = "parallel"
    /\ TeamDone
    /\ opc' = IF filter_type = "blur" THEN "borders" ELSE "save"
    /\ UNCHANGED <<run_vars, mpi_vars, save_calls, border_written, thread_count, omp_exit, input, output,
                   next_i, out_writers, omp_saved>>

OmpBorders ==
    /\ opc = "borders"
    /\ output' = [output EXCEPT !.data = Apply(@, BlurBorders(input))]
    /\ border_written' = DOMAIN BlurBorders(input)
    /\ opc' = "save"
    /\ UNCHANGED <<run_vars, mpi_vars, save_calls, thread_count, omp_exit, input, next_i,
                   out_writers, omp_saved>>

\* save_image(output_file, output); free both images; return 0.
OmpSave ==
    /\ opc = "save"
    /\ omp_saved' = output
    /\ save_calls' = Append(save_calls, 0)
    /\ input' = NoImage
    /\ output' = NoImage
    /\ opc' = "exit"
    /\ omp_exit' = 0
    /\ UNCHANGED <<run_vars, mpi_vars, thread_count, next_i, out_writers,
                   border_written>>

NextOMP ==
    \/ OmpStart
    \/ OmpLoad
    \/ OmpFork
    \/ \E t \in Threads : OmpIter(t)
    \/ OmpJoin
    \/ OmpBorders
    \/ OmpSave

\* The distributed program is not part of a run of the shared-memory one.
IdleMPI ==
    /\ size = 0
    /\ pc = << >>
    /\ exit_code = << >>
    /\ full_image = NoImage
    /\ dims = << >>
    /\ local_height = << >>
    /\ local_data = << >>
    /\ sendcounts = << >>
    /\ displs = << >>
    /\ bcast_done = FALSE
    /\ scat_msg = << >>
    /\ scat_done = FALSE
    /\ net = {}
    /\ posted = << >>
    /\ halo_top = << >>
    /\ halo_bottom = << >>
    /\ gath = {}
    /\ saved = NoImage
    /\ oob = {}
    /\ recv_log = {}
    /\ gather_writers = << >>
    /\ req_count = << >>

\* The command lines of the shared-memory program: too few arguments, or all
\* of them, with a thread count that atoi may give as 0.
InitRunOMP ==
    \/ /\ argc = 4
       /\ filter_type \in FilterArgs
       /\ input_file = NoImage
       /\ thread_count = 0
    \/ /\ argc = 5
       /\ filter_type \in FilterArgs
       /\ input_file \in OmpImages \cup {NoImage}
       /\ thread_count \in 0..MaxThreads

InitOMP ==
    /\ InitRunOMP
    /\ save_calls = << >>
    /\ IdleMPI
    /\ opc = "start"
    /\ omp_exit = -1
    /\ input = NoImage
    /\ output = NoImage
    /\ next_i = << >>
    /\ out_writers = << >>
    /\ omp_saved = NoImage
    /\ border_written = {}

SpecOMP == InitOMP /\ [][NextOMP]_vars

\* --------------------------------------------- a run of either program
\* A run is of the distributed program or of the shared-memory program.
InitEither == Init \/ InitOMP

\* The steps of the ranks of a distributed run (there is no rank, so no step
\* of these, in a shared-memory run), and the steps of a shared-memory run.
NextEither ==
    \/ \E r \in Ranks : r = 0 /\ Load
    \/ \E r \in Ranks : Start(r)
    \/ \E r \in Ranks : Bcast(r)
    \/ \E r \in Ranks : Barrier1(r)
    \/ \E r \in Ranks : Scatterv(r)
    \/ \E r \in Ranks : UnknownFilter(r)
    \/ \E r \in Ranks : HaloPost(r)
    \/ \E r \in Ranks : Waitall(r)
    \/ \E r \in Ranks : Compute(r)
    \/ \E r \in Ranks : Gatherv(r)
    \/ \E r \in Ranks : Barrier2(r)
    \/ \E r \in Ranks : Finish(r)
    \/ NextOMP

SpecEither == InitEither /\ [][NextEither]_vars

\* ------------------------------------------------- claims: helper notions
RECURSIVE SeqSum(_, _)
SeqSum(seq, n) == IF n = 0 THEN 0 ELSE SeqSum(seq, n - 1) + seq[n]

Stencil == filter_type \in {"blur", "edge"}

\* The run got as far as saving an output image.
Saved == saved # NoImage

\* What the run with a single worker leaves in the full buffer for this input
\* and filter: the kernel on the whole image as the band of rank 0 of 1.
SingleWorkerData ==
    LET f == input_file
        z == Zeros(f.width * f.channels)
    IN IF filter_type = "grayscale"
       THEN grayscale_filter_mpi(f.data, f.height, f.width, f.channels)
       ELSE IF filter_type = "blur"
       THEN gaussian_blur_filter_mpi(f.data, z, z, f.height, f.width,
                                     f.channels, 0, 1)
       ELSE IF filter_type = "edge"
       THEN sobel_edge_filter_mpi(f.data, z, z, f.height, f.width,
                                  f.channels, 0, 1)
       ELSE brightness_filter_mpi(f.data, f.height, f.width, f.channels, 50)

\* Row i of the band rank q was sent by the scatter; no row when the band has
\* no row i.
UnfilteredRow(q, i) ==
    LET rs == dims[0].width * dims[0].channels
    IN IF 0 <= i /\ i < local_height[q] /\ Len(scat_msg[q]) >= (i + 1) * rs
       THEN Slice(scat_msg[q], i * rs, rs)
       ELSE << >>

\* Rows of the image above the band of rank q, by the ranks' own local_height.
RowOffset(q) == SeqSum([p \in 1..size |-> local_height[p - 1]], q)

\* The rank whose band holds the byte at index k of the full buffer.
OwnerOf(k) ==
    LET rs == dims[0].width * dims[0].channels
    IN CHOOSE q \in Ranks :
          RowOffset(q) * rs < k /\ k <= (RowOffset(q) + local_height[q]) * rs

\* ------------------------------------------------------------------ claims

\* C1 (partition invariance): the buffer saved by a run with any worker count
\* is byte-identical to what the single-worker run produces for the same image
\* and filter.
C1_PartitionInvariance ==
    Saved => saved.data = SingleWorkerData

\* C2 (row coverage): the coordinator's byte counts are non-negative whole
\* numbers of rows, the row counts sum to height, each displacement is the sum
\* of the counts of the lower ranks, and each rank's own local_height is the
\* row count the coordinator computed for it.
C2_RowCoverage ==
    sendcounts # << >> =>
        LET rs == dims[0].width * dims[0].channels
        IN /\ Len(sendcounts) = size /\ Len(displs) = size
           /\ \A i \in 1..size : sendcounts[i] >= 0 /\ sendcounts[i] % rs = 0
           /\ SeqSum(sendcounts, size) = dims[0].height * rs
           /\ \A i \in 1..size : displs[i] = SeqSum(sendcounts, i - 1)
           /\ \A r \in Ranks :
                 pc[r] \notin {"start", "load", "bcast"} =>
                     local_height[r] * rs = sendcounts[r + 1]

C2_Witness ==
    /\ sendcounts # << >>
    /\ size >= 2
    /\ dims[0].height % size # 0
    /\ dims[0].height > size
    /\ \A r \in Ranks : pc[r] = "barrier1"

\* C3 (halo content): when a rank's stencil kernel starts, its halo_top is the
\* unfiltered last row of the band of rank-1 and its halo_bottom the unfiltered
\* first row of the band of rank+1; no tag-0 (first row) message goes into a
\* halo_top and no tag-1 (last row) message into a halo_bottom.
C3_HaloContent ==
    /\ \A r \in Ranks :
          (Stencil /\ pc[r] = "compute") =>
              /\ r > 0 => halo_top[r] = UnfilteredRow(r - 1, local_height[r - 1] - 1)
              /\ r < size - 1 => halo_bottom[r] = UnfilteredRow(r + 1, 0)
    /\ \A e \in recv_log :
          /\ e.buf = "halo_top" => e.tag # 0
          /\ e.buf = "halo_bottom" => e.tag # 1

\* The run has ended with every rank returning 0 from the end of main.
AllReachedEnd == \A r \in Ranks : pc[r] = "exit" /\ exit_code[r] = 0

\* C4 (deadlock freedom): with the image loaded and a recognised filter, the
\* run never stops short of its end: in every state either all ranks have
\* returned 0 from the end of main or some rank can take a step (no state has
\* every live rank blocked, none has a rank gone before its end).
C4_NeverStuck ==
    (argc >= 4 /\ input_file # NoImage /\ filter_type \in FilterNames) =>
        (AllReachedEnd \/ ENABLED Next)

\* C5 (boundary pass-through): after blur or edge, every byte of the first and
\* last row and of the first and last column of the saved image is the input
\* byte.
C5_BoundaryPassThrough ==
    (Saved /\ Stencil) =>
        \A k \in 1..Len(saved.data) :
            OnBorder(k, saved) => saved.data[k] = input_file.data[k]

\* C6 (scatter/gather placement): once rank 0 has gathered, every byte of the
\* full buffer was written by exactly one rank, the one whose band holds it,
\* and is that rank's byte at the offset inside the band; the band was
\* scattered from the same range, so a byte the filter left unchanged is the
\* input byte at the same offset.
C6_GatherPlacement ==
    (pc[0] = "barrier2" /\ \A q \in Ranks : pc[q] # "exit") =>
        LET rs == dims[0].width * dims[0].channels
        IN /\ Len(gather_writers) = Len(full_image.data)
           /\ \A q \in Ranks :
                 scat_msg[q] = Slice(input_file.data, RowOffset(q) * rs,
                                     local_height[q] * rs)
           /\ \A k \in 1..Len(full_image.data) :
                 LET q == OwnerOf(k)
                     off == RowOffset(q) * rs
                 IN /\ gather_writers[k] = {q}
                    /\ full_image.data[k] = local_data[q][k - off]
                    /\ local_data[q][k - off] = scat_msg[q][k - off]
                          => full_image.data[k] = input_file.data[k]

C6_Witness ==
    /\ pc[0] = "barrier2"
    /\ \A q \in Ranks : pc[q] # "exit"
    /\ size >= 3
    /\ filter_type = "blur"
    /\ \A q \in Ranks : local_height[q] >= 1
    /\ \E k \in 1..Len(full_image.data) : full_image.data[k] # input_file.data[k]
    /\ \E k \in 1..Len(full_image.data) :
          /\ OwnerOf(k) = size - 1
          /\ full_image.data[k] = input_file.data[k]

\* C7 (zero-row bands): no rank reads or writes outside its band buffer or a
\* halo buffer, and a rank with local_height = 0 sends no halo row.
C7_NoOutOfBounds ==
    /\ oob = {}
    /\ \A m \in net : local_height[m.src] > 0

\* ------------------------------------------- claims: shared-memory strategy
\* The iterations of the parallel loop given to thread t.
ChunkOf(t) ==
    { i \in 0..(input_file.height - 1) :
        /\ ChunkStart(t, LoopLo, LoopHi(input_file.height), thread_count) <= i
        /\ i < ChunkStart(t + 1, LoopLo, LoopHi(input_file.height), thread_count) }

\* C8 (disjoint writes): in and after the parallel region no byte of the
\* output buffer has been written by two threads, every byte a thread wrote
\* lies in a row of its own chunk, and the input buffer holds the loaded image
\* unchanged.
C8_DisjointWrites ==
    /\ \A k \in 1..Len(out_writers) :
          /\ Cardinality(out_writers[k]) <= 1
          /\ \A t \in out_writers[k] :
                RowOf(k, input_file.width, input_file.channels) \in ChunkOf(t)
    /\ opc \in {"filter", "parallel", "borders", "save"} => input = input_file

C8_Witness ==
    /\ opc = "parallel"
    /\ thread_count >= 2
    /\ TeamDone
    /\ \E k1, k2 \in 1..Len(out_writers) :
          /\ out_writers[k1] # {}
          /\ out_writers[k2] # {}
          /\ out_writers[k1] # out_writers[k2]

\* C9 (fork-join ordering): a team exists and writes only after the load;
\* when the filter function has left its parallel region (border copy, save,
\* after the save) every thread has finished its chunk, and what was saved is
\* the output buffer in which every write of every thread had been made.
C9_ForkJoin ==
    /\ opc \in {"start", "load", "filter"} =>
          next_i = << >> /\ out_writers = << >> /\ omp_saved = NoImage
    /\ opc \in {"parallel", "borders", "save"} =>
          input = input_file /\ omp_saved = NoImage
    /\ (opc \in {"borders", "save"} \/ omp_saved # NoImage) => TeamDone
    /\ opc = "save" =>
          \A t \in Threads : \A i \in ChunkOf(t) :
              \A k \in DOMAIN LoopBody(input, i) :
                  output.data[k] = LoopBody(input, i)[k]

C9_Witness ==
    /\ omp_saved # NoImage
    /\ thread_count >= 2
    /\ \A t \in Threads : ChunkOf(t) # {}

\* C10 (edge boundary pass-through, shared memory): when sobel_edge_filter has
\* returned, every byte of the output in row 0, row height-1, column 0 and
\* column width-1 is the input byte.
C10_EdgeBorderPassThrough ==
    (opc = "save" /\ filter_type = "edge") =>
        \A k \in 1..Len(output.data) :
            OnBorder(k, input) => output.data[k] = input.data[k]

\* ---------------------------------------------- claims: both strategies
\* Every byte of the input file is 100.
Uniform100 ==
    /\ input_file # NoImage
    /\ \A k \in 1..Len(input_file.data) : input_file.data[k] = 100

\* Byte k lies in an interior pixel: rows 1..height-2, columns 1..width-2.
Interior(k, img) == ~OnBorder(k, img)

\* C11 (uniform-field fixed point): for an input whose every byte is 100, the
\* image either program saves after blur is byte-identical to the input, and
\* the image either program saves after edge holds 0 in every channel of every
\* interior pixel, for every worker count and every thread count.
C11_UniformFixedPoint ==
    /\ (Saved /\ Uniform100) =>
          /\ filter_type = "blur" => saved.data = input_file.data
          /\ filter_type = "edge" =>
                \A k \in 1..Len(saved.data) :
                    Interior(k, saved) => saved.data[k] = 0
    /\ (omp_saved # NoImage /\ Uniform100) =>
          /\ filter_type = "blur" => omp_saved.data = input_file.data
          /\ filter_type = "edge" =>
                \A k \in 1..Len(omp_saved.data) :
                    Interior(k, omp_saved) => omp_saved.data[k] = 0

\* C12 (brighten exactness): the clamp gives min(v + 50, 255) for every byte
\* value v of 0..255, and every byte of the image either program saves after
\* brighten is min(input byte + 50, 255), whatever the worker count, the
\* thread count and the band or chunk the byte lies in.
C12_BrightenExact ==
    filter_type = "brighten" =>
        /\ (Saved \/ omp_saved # NoImage) =>
              \A v \in 0..255 : Brighten(v, 50) = Min(v + 50, 255)
        /\ Saved =>
              /\ Len(saved.data) = Len(input_file.data)
              /\ \A k \in 1..Len(saved.data) :
                    saved.data[k] = Min(input_file.data[k] + 50, 255)
        /\ omp_saved # NoImage =>
              /\ Len(omp_saved.data) = Len(input_file.data)
              /\ \A k \in 1..Len(omp_saved.data) :
                    omp_saved.data[k] = Min(input_file.data[k] + 50, 255)

C12_Witness ==
    /\ filter_type = "brighten"
    /\ \/ Saved /\ size >= 2
       \/ omp_saved # NoImage /\ thread_count >= 2
    /\ input_file.height >= 2
    /\ \E k \in 1..Len(input_file.data) : input_file.data[k] + 50 > 255
    /\ \E k \in 1..Len(input_file.data) : input_file.data[k] + 50 < 255

\* floor(0.299*r + 0.587*g + 0.114*b) in exact arithmetic.
FloorGray(r, g, b) == (299 * r + 587 * g + 114 * b) \div 1000

\* What grayscale exactness asks of byte k of an output buffer out for the
\* input buffer in: floor of the weighted sum of the pixel's input bytes in
\* channels 0..2, the input byte in channel 3.
GrayExactAt(out, in, k, ch) ==
    LET idx == ((k - 1) \div ch) * ch
        c == (k - 1) % ch
        r == in[idx + 1]
        g == IF ch > 1 THEN in[idx + 2] ELSE r
        b == IF ch > 2 THEN in[idx + 3] ELSE r
    IN IF c <= 2 THEN out[k] = FloorGray(r, g, b)
       ELSE c = 3 => out[k] = in[k]

\* C13 (grayscale exactness): every byte of the image either program saves
\* after grayscale is, in channels 0, 1 and 2, the floor of
\* 0.299*R + 0.587*G + 0.114*B of its pixel's input bytes, and in channel 3
\* the input byte.
C13_GrayscaleExact ==
    /\ (Saved /\ filter_type = "grayscale") =>
          \A k \in 1..Len(saved.data) :
              GrayExactAt(saved.data, input_file.data, k, saved.channels)
    /\ (omp_saved # NoImage /\ filter_type = "grayscale") =>
          \A k \in 1..Len(omp_saved.data) :
              GrayExactAt(omp_saved.data, input_file.data, k, omp_saved.channels)

\* The command line of the distributed run names a loadable image and one of
\* the four filters.
GoodRunMPI ==
    argc >= 4 /\ input_file # NoImage /\ filter_type \in FilterNames

\* The same for the shared-memory run, whose arguments include a thread count
\* of at least 1.
GoodRunOMP ==
    /\ argc >= 5 /\ thread_count >= 1
    /\ input_file # NoImage /\ filter_type \in FilterNames

\* C14 (exit codes): a process that has ended has ended with 0 or 1, with 0
\* exactly when the arguments were sufficient, the image loaded and the filter
\* name is one of the four; any two ranks of a distributed run that have ended
\* have ended with the same code.
C14_ExitCodes ==
    /\ \A r \in Ranks :
          exit_code[r] # -1 =>
              /\ exit_code[r] \in {0, 1}
              /\ exit_code[r] = 0 <=> GoodRunMPI
    /\ \A r, q \in Ranks :
          (exit_code[r] # -1 /\ exit_code[q] # -1) => exit_code[r] = exit_code[q]
    /\ omp_exit # -1 =>
          /\ omp_exit \in {0, 1}
          /\ omp_exit = 0 <=> GoodRunOMP

\* ------------------------------------- claims: error paths, phases, passes
\* The distributed run was given a loadable image and a name that is none of
\* the four filters.
UnknownFilterRun ==
    argc >= 4 /\ input_file # NoImage /\ filter_type \notin FilterNames

\* C15 (unknown filter, distributed): in a run with an unknown filter name, a
\* rank that has left main did so after the scatter gave it its band, without
\* having entered the gather or the final barrier, with code 1, and with every
\* buffer it had allocated released: its band buffer, and on rank 0 the full
\* image, the count array and the displacement array.
C15_UnknownFilterExit ==
    UnknownFilterRun =>
        \A r \in Ranks :
            /\ pc[r] \notin {"compute", "halo", "waitall", "gather",
                             "barrier2", "finish"}
            /\ pc[r] = "exit" =>
                  /\ scat_done
                  /\ exit_code[r] = 1
                  /\ r \notin gath
                  /\ local_data[r] = << >>
                  /\ r = 0 => /\ full_image = NoImage
                              /\ sendcounts = << >>
                              /\ displs = << >>

\* The distributed run was given an input file that does not load.
LoadFailureRun == argc >= 4 /\ input_file = NoImage

\* MPI_Abort has ended every rank of the group.
GroupTerminated == \A r \in Ranks : pc[r] = "aborted"

\* C16 (load failure, distributed): in a run whose image does not load, no
\* rank ever holds image dimensions or a band, none gets past the broadcast
\* to the scatter, a filter or the gather, nothing is saved, and the run does
\* not stop before the whole group has been terminated with code 1: in every
\* state either every rank has been aborted or some rank can still step (a
\* rank waiting in the broadcast is ended by the abort, not left waiting).
C16_LoadFailure ==
    LoadFailureRun =>
        /\ \A r \in Ranks :
              /\ pc[r] \in {"start", "load", "bcast", "aborted"}
              /\ dims[r] = NoDims
              /\ local_data[r] = << >>
              /\ scat_msg[r] = << >>
              /\ pc[r] = "aborted" => exit_code[r] = 1
        /\ ~bcast_done /\ ~scat_done /\ gath = {} /\ saved = NoImage
        /\ GroupTerminated \/ ENABLED Next

C16_Witness ==
    /\ LoadFailureRun
    /\ size >= 3
    /\ GroupTerminated
    /\ \A r \in Ranks : exit_code[r] = 1

\* output->data of the shared-memory program after the iterations lo..i-1 of
\* the filter's loop on image in, starting from the calloc'ed buffer.
RECURSIVE OmpRows(_, _, _)
OmpRows(in, lo, i) ==
    IF i <= lo THEN Zeros(Len(in.data))
    ELSE Apply(OmpRows(in, lo, i - 1), LoopBody(in, i - 1))

\* What the shared-memory program saves for this input and filter: every
\* iteration of the loop, then the border copy of blur.
OmpOutput ==
    LET f == input_file
        rows == OmpRows(f, LoopLo, LoopHi(f.height))
    IN IF filter_type = "blur" THEN Apply(rows, BlurBorders(f)) ELSE rows

\* C17 (interchangeable strategies): for the same image and filter, the buffer
\* the distributed program saves with a worker count not above the height is
\* byte-identical to the buffer the shared-memory program saves, and the
\* buffer the shared-memory program saves with any thread count is
\* byte-identical to the one the distributed program saves with one worker.
C17_Interchangeable ==
    /\ (Saved /\ size <= input_file.height) => saved.data = OmpOutput
    /\ omp_saved # NoImage => omp_saved.data = SingleWorkerData

\* The phases of a rank, named by the position of main at which the rank is
\* about to run them, in the order of the claim (scatter, then barrier) and
\* in the order with the barrier first.
ScatterThenBarrier ==
    <<"bcast", "scatter", "barrier1", "halo", "waitall", "compute", "gather",
      "barrier2", "finish">>

BarrierThenScatter ==
    <<"bcast", "barrier1", "scatter", "halo", "waitall", "compute", "gather",
      "barrier2", "finish">>

Phases == {"bcast", "barrier1", "scatter", "halo", "waitall", "compute",
           "gather", "barrier2", "finish"}

Position(order, p) == CHOOSE i \in 1..Len(order) : order[i] = p

\* Every rank that moves from one phase to another moves forward in order.
StepsFollow(order) ==
    \A r \in Ranks :
        (pc[r] \in Phases /\ pc'[r] \in Phases /\ pc'[r] # pc[r]) =>
            Position(order, pc[r]) < Position(order, pc'[r])

\* Rank r has passed the barrier that precedes the halo exchange.
PassedBarrier(r) ==
    pc[r] \in {"scatter", "halo", "waitall", "compute", "gather", "barrier2",
               "finish", "unknown"}

\* Rank q has received its band from the scatter.
HasBand(q) ==
    pc[q] \in {"halo", "waitall", "compute", "gather", "barrier2", "finish",
               "unknown"}

\* Rank q has taken part in the broadcast and allocated its band buffer.
HasDims(q) == pc[q] \notin {"start", "load", "bcast"}

\* A rank that goes from its compute phase into the gather has no request
\* pending and the step sends, receives and posts nothing.
ComputeIsLocal ==
    \A r \in Ranks :
        (pc[r] = "compute" /\ pc'[r] = "gather") =>
            /\ posted[r] = {}
            /\ UNCHANGED <<net, posted, gath, scat_msg, scat_done, bcast_done,
                           recv_log, full_image>>

\* C18 (phase order, as claimed): every rank goes through broadcast, scatter,
\* barrier, halo exchange, compute, gather, barrier in this order; when a rank
\* has passed the barrier that precedes the halo exchange, every rank has
\* received its band; the step from compute into gather communicates nothing.
C18_PhaseOrder ==
    [][/\ StepsFollow(ScatterThenBarrier)
       /\ \A r, q \in Ranks : PassedBarrier(r)' => HasBand(q)'
       /\ ComputeIsLocal]_vars

\* C18 (phase order, as the code has it): every rank goes through broadcast,
\* barrier, scatter, halo exchange (stencil filters only), compute, gather,
\* barrier in this order; when a rank has passed the first barrier, every rank
\* has completed the broadcast; a rank that starts its halo exchange holds the
\* band the scatter sent it; the step from compute into gather communicates
\* nothing.
C18_PhaseOrderAmended ==
    [][/\ StepsFollow(BarrierThenScatter)
       /\ \A r, q \in Ranks : PassedBarrier(r)' => HasDims(q)'
       /\ \A r \in Ranks : pc'[r] = "halo" => /\ HasBand(r)'
                                               /\ local_data'[r] = scat_msg'[r]
                                               /\ Stencil
       /\ \A r \in Ranks : (pc[r] = "scatter" /\ ~Stencil) => pc'[r] # "halo"
       /\ ComputeIsLocal]_vars

C18_Witness ==
    /\ Stencil
    /\ size >= 3
    /\ \A r \in Ranks : pc[r] = "exit" /\ exit_code[r] = 0
    /\ Cardinality(recv_log) >= 4

\* The value rank r's stencil pass reads for the neighbour at row ni, column
\* nj, channel c of its band is the input file's byte at that pixel: the
\* pixel exists in the image and the byte read (from the band before the
\* pass, or from a halo row) is the unfiltered one.
ReadIsInput(r, ni, nj, c) ==
    LET d == dims[r]
        gi == RowOffset(r) + ni
    IN /\ 0 <= gi /\ gi < input_file.height
       /\ PixelVal(local_data[r], halo_top[r], halo_bottom[r], local_height[r],
                   d.width, d.channels, ni, nj, c)
            = input_file.data[(gi * d.width + nj) * d.channels + c + 1]

\* Byte k of rank r's band is one the stencil pass computes.
ComputedByPass(r, k) ==
    LET d == dims[r]
        i == RowOf(k, d.width, d.channels)
        j == ColOf(k, d.width, d.channels)
    IN ~SkipRow(i, local_height[r], r, size) /\ 1 <= j /\ j < d.width - 1

\* C19 (no read-after-write inside a stencil pass): when a rank is about to
\* run blur or edge on its band, every neighbour value the pass reads for a
\* pixel it computes is the input file's value of that neighbour, and what the
\* pass writes is the stencil of those input values; in the shared-memory
\* program the input buffer stays the loaded image while the team writes, and
\* every byte written so far is the stencil of the input file's values.
C19_NoReadAfterWrite ==
    /\ \A r \in Ranks :
          (Stencil /\ pc[r] = "compute") =>
              \A k \in 1..Len(local_data[r]) :
                  ComputedByPass(r, k) =>
                      LET d == dims[r]
                          i == RowOf(k, d.width, d.channels)
                          j == ColOf(k, d.width, d.channels)
                          c == IF filter_type = "edge" THEN 0
                               ELSE (k - 1) % d.channels
                          gi == RowOffset(r) + i
                          gk == RowOffset(r) * d.width * d.channels + k
                      IN /\ \A di, dj \in D3 : ReadIsInput(r, i + di, j + dj, c)
                         /\ FilterBand(r)[k] = LoopBody(input_file, gi)[gk]
    /\ (Stencil /\ opc \in {"parallel", "borders", "save"}) =>
          /\ input = input_file
          /\ \A k \in 1..Len(out_writers) :
                out_writers[k] # {} =>
                    output.data[k] =
                        LoopBody(input_file,
                                 RowOf(k, input_file.width, input_file.channels))[k]

\* The step in which main of the shared-memory program reports a failure.
ErrorRaised == omp_exit = -1 /\ omp_exit' = 1

\* The command line is short, the thread count is below 1 or the input file
\* does not load.
FailsBeforeFilter == argc < 5 \/ thread_count < 1 \/ input_file = NoImage

\* C20 (error detection precedes output allocation, as claimed): whenever
\* the shared-memory program reports a failure, no output image exists at
\* that moment.
C20_ErrorBeforeOutput ==
    [][ErrorRaised => output = NoImage]_vars

\* C20 (as the code has it): a run with a short command line, an invalid
\* thread count or an input file that does not load never has an output image,
\* and its failure is reported before the filter name is looked at; the only
\* other failure is an unknown filter name, reported when the output image
\* exists, and that step releases the input and the output image.
C20_ErrorsAndOutput ==
    [][/\ FailsBeforeFilter => output' = NoImage
       /\ ErrorRaised =>
             \/ /\ opc \in {"start", "load"}
                /\ FailsBeforeFilter
                /\ output = NoImage
             \/ /\ opc = "filter"
                /\ filter_type \notin FilterNames
                /\ output # NoImage
                /\ output' = NoImage /\ input' = NoImage]_vars

C20_Witness ==
    /\ omp_exit = 1
    /\ ~FailsBeforeFilter
    /\ filter_type \notin FilterNames
    /\ output = NoImage /\ input = NoImage
    /\ thread_count >= 2

\* ------------------------------------------ claims: collectives, requests
\* The collective operations of main in program order: 1 the three
\* MPI_Bcast, 2 the first MPI_Barrier, 3 MPI_Scatterv, 4 MPI_Gatherv, 5 the
\* last MPI_Barrier. InsideCollective(r) is the one rank r has reached and
\* not left, 0 when it is at none.
InsideCollective(r) ==
    IF pc[r] = "bcast" THEN 1
    ELSE IF pc[r] = "barrier1" THEN 2
    ELSE IF pc[r] = "scatter" THEN 3
    ELSE IF pc[r] = "gather" THEN 4
    ELSE IF pc[r] = "barrier2" THEN 5
    ELSE 0

\* How many collectives a rank that has returned from main went through: all
\* five when it returned 0, none when it returned from the usage check, the
\* first three when it returned from the unknown-filter branch.
CollectivesBeforeExit(q) ==
    IF exit_code[q] = 0 THEN 5
    ELSE IF argc < 4 THEN 0
    ELSE 3

\* C21 (same collectives on every rank): a rank that has returned from main
\* went through none, the first three or all five of the collectives; any two
\* ranks that have returned went through the same ones; and no rank is at or
\* inside a collective that a rank which has returned did not go through.
C21_SameCollectives ==
    \A q \in Ranks :
        pc[q] = "exit" =>
            /\ exit_code[q] = 1 /\ argc >= 4 => filter_type \notin FilterNames
            /\ \A r \in Ranks :
                  /\ pc[r] = "exit" =>
                        CollectivesBeforeExit(r) = CollectivesBeforeExit(q)
                  /\ InsideCollective(r) <= CollectivesBeforeExit(q)
                  /\ CollectivesBeforeExit(q) = 0 => pc[r] \in {"start", "exit"}
                  /\ CollectivesBeforeExit(q) = 3 =>
                        pc[r] \in {"barrier1", "scatter", "unknown", "exit"}
                  /\ CollectivesBeforeExit(q) = 5 =>
                        pc[r] \in {"barrier2", "finish", "exit"}

C21_Witness ==
    /\ size >= 3
    /\ \E q, r \in Ranks : pc[q] = "exit" /\ pc[r] = "scatter"
    /\ \E r \in Ranks : pc[r] = "unknown"

\* ------------------------------------------------------------------ C22
\* The neighbours of a worker: the rank above and the rank below, when present.
Neighbours(r) ==
    {q \in Ranks : q = r - 1 \/ q = r + 1}

\* The sends of worker r, pending or completed, as (destination, tag) pairs.
SendsOf(r) ==
    { <<m.dst, m.tag>> : m \in {n \in net : n.src = r} }
        \cup { <<x.rank, x.tag>> : x \in {y \in recv_log : y.src = r} }

\* C22: in the halo exchange a worker posts twice as many requests as it has
\* neighbours (0 alone, 2 at either end, 4 in between), never more than the 4
\* slots of the request array; the count is the number of sends plus receives
\* it posted, and the wait-for-all is called with that count and leaves none
\* of them outstanding.
C22_RequestCount ==
    [][\A r \in Ranks :
          /\ pc[r] = "halo" /\ pc'[r] = "waitall" =>
                /\ req_count'[r] = 2 * Cardinality(Neighbours(r))
                /\ req_count'[r] =
                      (IF size = 1 THEN 0 ELSE IF r = 0 \/ r = size - 1 THEN 2 ELSE 4)
                /\ req_count'[r] <= RequestSlots
                /\ Cardinality(net' \ net) + Cardinality(posted'[r]) = req_count'[r]
                /\ \A m \in net' \ net : m.src = r /\ m.dst \in Neighbours(r)
                /\ \A req \in posted'[r] : req.src \in Neighbours(r)
          /\ pc[r] = "waitall" /\ pc'[r] = "compute" =>
                /\ Cardinality(SendsOf(r)) + Cardinality(posted[r]) = req_count[r]
                /\ posted'[r] = {}
                /\ Cardinality({x \in recv_log' : x.rank = r}) = Cardinality(posted[r])
                /\ \A m \in net' : m.src = r =>
                      \E req \in posted'[m.dst] : req.src = r /\ req.tag = m.tag
      ]_vars

C22_Witness ==
    /\ size >= 3
    /\ pc[0] = "compute" /\ req_count[0] = 2
    /\ pc[1] = "compute" /\ req_count[1] = 4
    /\ pc[size - 1] = "compute" /\ req_count[size - 1] = 2

\* ------------------------------------------------------------------ C23
\* The run is one of the distributed program.
IsMPIRun == size > 0

\* The run has a usage error, a load failure or an unknown filter name.
ErrorRun ==
    \/ input_file = NoImage
    \/ filter_type \notin FilterNames
    \/ IF IsMPIRun THEN argc < 4 ELSE argc < 5 \/ thread_count < 1

\* C23: in both programs save_image is called at most once in a run, and only
\* in a run that ends with exit code 0 (in the distributed program no rank has
\* or will have another code once the image is saved); after a usage error, a
\* load failure or an unknown filter name it is never called; in the
\* distributed program only rank 0 calls it.
C23_SaveOnce ==
    /\ Len(save_calls) <= 1
    /\ \A k \in 1..Len(save_calls) : save_calls[k] = 0
    /\ ErrorRun => save_calls = << >>
    /\ save_calls # << >> =>
          IF IsMPIRun
          THEN /\ saved # NoImage
               /\ exit_code[0] = 0
               /\ \A r \in Ranks :
                     /\ pc[r] \in {"barrier2", "finish", "exit"}
                     /\ exit_code[r] = IF pc[r] = "exit" THEN 0 ELSE -1
                     /\ pc[r] = "barrier2" => ENABLED Barrier2(r)
                     /\ pc[r] = "finish" => ENABLED Finish(r)
          ELSE omp_saved # NoImage /\ omp_exit = 0 /\ opc = "exit"
    /\ save_calls = << >> => saved = NoImage /\ omp_saved = NoImage
    /\ IsMPIRun /\ (\E r \in Ranks : exit_code[r] = 1) => save_calls = << >>
    /\ ~IsMPIRun /\ omp_exit = 1 => save_calls = << >>

C23_Witness ==
    /\ size >= 2
    /\ save_calls = <<0>>
    /\ \A r \in Ranks : pc[r] = "exit" /\ exit_code[r] = 0

\* ------------------------------------------------------------------ C24
\* gaussian_blur_filter has returned and main has not yet freed the images.
BlurReturned ==
    filter_type = "blur" /\ opc = "save"

\* Byte k lies in rows 1..height-2 and columns 1..width-2.
InteriorByte(k, img) ==
    /\ 1 <= RowOf(k, img.width, img.channels)
    /\ RowOf(k, img.width, img.channels) <= img.height - 2
    /\ 1 <= ColOf(k, img.width, img.channels)
    /\ ColOf(k, img.width, img.channels) <= img.width - 2

\* C24: after the shared-memory blur returns, for every image size (widths and
\* heights below 3 included) every byte of the output buffer has been written
\* by the parallel loop or by the border copy, none by both, the parallel
\* loop wrote exactly rows 1..height-2, columns 1..width-2, and every byte of
\* the first and last row and column equals the input byte.
C24_BlurWritesEveryByte ==
    BlurReturned =>
        /\ input.width >= 1 /\ input.height >= 1
        /\ Len(output.data) = input.width * input.height * input.channels
        /\ border_written \subseteq 1..Len(output.data)
        /\ \A k \in 1..Len(output.data) :
              /\ out_writers[k] # {} \/ k \in border_written
              /\ ~(out_writers[k] # {} /\ k \in border_written)
              /\ out_writers[k] # {} <=> InteriorByte(k, input)
              /\ OnBorder(k, input) => output.data[k] = input.data[k]

C24_Witness ==
    /\ BlurReturned
    /\ input.width = 1
    /\ input.height = 3
    /\ border_written = 1..Len(output.data)
    /\ output.data = input.data

====
